---------------------------- MODULE Spec2Model ----------------------------
(***************************************************************************)
(* The conversation engine of the expense bot (src/app.py): the per-sender *)
(* state machine of whatsapp_webhook, the draft store, the welcome set and *)
(* the ledger sheet.                                                       *)
(*                                                                         *)
(* Text is modelled as a sequence of one-character strings, so that        *)
(* str.strip, str.lower and float() are computed, not assumed.  A number   *)
(* is held in hundredths (float("15.50") = float("15.5") = 1550).  A cell  *)
(* of the sheet holds text, as sheet.get_all_values() returns it.          *)
(***************************************************************************)
EXTENDS Integers, Sequences, FiniteSets, TLC

VARIABLES
    user_state,         \* dict: sender -> state name
    user_temp,          \* dict: sender -> draft dict (keys "category", "amount")
    user_seen_welcome,  \* set of senders
    sheet,              \* the rows of the ledger sheet, header row first
    now,                \* the wall clock read by datetime.datetime.now()
    request,            \* the form of the request handled last (From, Body)
    reply,              \* the response to it
    typed,              \* per sender, the key and the amount text the running
                        \* add-expense traversal accepted (an observer's record)
    spent,              \* per sender, the sum of the amounts typed in the
                        \* traversals the sender completed (an observer's record)
    walked,             \* per sender, how much of the walkthrough the sender
                        \* has typed (an observer's record)
    inflight            \* the requests received whose handler waits for the
                        \* form (await request.form()), each with the state its
                        \* sender had on arrival (an observer's record)

vars == <<user_state, user_temp, user_seen_welcome, sheet, now, request, reply,
          typed, spent, walked, inflight>>

-----------------------------------------------------------------------------
(* Bounds of the model *)

MaxRows == 1            \* expense rows the ledger may hold
MaxTime == 1            \* last tick of the clock
TicksPerDay == 2        \* clock ticks in one day
MaxLedger == 2          \* rows of a ledger the totals are computed over
MaxInFlight == 2        \* requests whose handlers wait for the form

Senders == {"A", "B"}

(* The message bodies the senders type (before strip): the menu choices    *)
(* "1" and "2", which are also category keys and amounts; the exit inputs  *)
(* "5" and " Exit "; and "-", which is no key, no number and the no-notes  *)
(* input.                                                                  *)
Bodies ==
    { <<"1">>, <<"2">>, <<"5">>, <<"-">>, <<" ", "E", "x", "i", "t", " ">> }

-----------------------------------------------------------------------------
(* Python dict operations *)

Put(d, k, v) == [x \in (DOMAIN d) \cup {k} |-> IF x = k THEN v ELSE d[x]]

(* A variant of Pop that leaves the key in place. *)
PopKeeps(d, k) == d

Pop(d, k) == [x \in (DOMAIN d) \ {k} |-> d[x]]

EmptyDict == [x \in {} |-> x]

-----------------------------------------------------------------------------
(* str.strip, str.lower, float *)

(* The whitespace str.strip removes (a sender of the model types blanks). *)
Whitespace == {" "}

RECURSIVE lstrip(_)
lstrip(s) ==
    IF s # <<>> /\ Head(s) \in Whitespace THEN lstrip(Tail(s)) ELSE s

RECURSIVE rstrip(_)
rstrip(s) ==
    IF s # <<>> /\ s[Len(s)] \in Whitespace
    THEN rstrip(SubSeq(s, 1, Len(s) - 1))
    ELSE s

strip(s) == rstrip(lstrip(s))

UpperCase ==
    << "A", "B", "C", "D", "E", "F", "G", "H", "I", "J", "K", "L", "M",
       "N", "O", "P", "Q", "R", "S", "T", "U", "V", "W", "X", "Y", "Z" >>

LowerCase ==
    << "a", "b", "c", "d", "e", "f", "g", "h", "i", "j", "k", "l", "m",
       "n", "o", "p", "q", "r", "s", "t", "u", "v", "w", "x", "y", "z" >>

lower_char(c) ==
    IF \E i \in DOMAIN UpperCase : UpperCase[i] = c
    THEN LowerCase[CHOOSE i \in DOMAIN UpperCase : UpperCase[i] = c]
    ELSE c

lower(s) == [i \in DOMAIN s |-> lower_char(s[i])]

DigitChars == <<"0", "1", "2", "3", "4", "5", "6", "7", "8", "9">>

IsDigit(c) == \E i \in DOMAIN DigitChars : DigitChars[i] = c

DigitValue(c) == (CHOOSE i \in DOMAIN DigitChars : DigitChars[i] = c) - 1

(* The digits of s read as a decimal integer; 0 for the empty text. *)
RECURSIVE DecimalValue(_)
DecimalValue(s) ==
    IF s = <<>> THEN 0
    ELSE 10 * DecimalValue(SubSeq(s, 1, Len(s) - 1)) + DigitValue(s[Len(s)])

Unsigned(s) == IF s # <<>> /\ s[1] \in {"+", "-"} THEN Tail(s) ELSE s

DotAt(s) == {i \in DOMAIN s : s[i] = "."}

(* float(s) does not raise ValueError: an optional sign, digits with at    *)
(* most one point, at least one digit.  (Exponents, "inf", "nan" and "_"   *)
(* are texts no sender of the model types.)                                *)
ParsesAsFloat(s) ==
    LET u == Unsigned(s)
    IN  /\ \A i \in DOMAIN u : IsDigit(u[i]) \/ u[i] = "."
        /\ Cardinality(DotAt(u)) <= 1
        /\ \E i \in DOMAIN u : IsDigit(u[i])

(* A variant of float that reads the digits before the point only. *)
float_whole(s) ==
    LET u == Unsigned(s)
        dot == IF DotAt(u) = {} THEN Len(u) + 1 ELSE CHOOSE i \in DotAt(u) : TRUE
        magnitude == 100 * DecimalValue(SubSeq(u, 1, dot - 1))
    IN  IF s # <<>> /\ s[1] = "-" THEN 0 - magnitude ELSE magnitude

(* float(s) in hundredths, for a text with at most two decimals. *)
float(s) ==
    LET u == Unsigned(s)
        dot == IF DotAt(u) = {} THEN Len(u) + 1 ELSE CHOOSE i \in DotAt(u) : TRUE
        whole == SubSeq(u, 1, dot - 1)
        frac == SubSeq(u, dot + 1, Len(u))
        frac2 == SubSeq(frac \o <<"0", "0">>, 1, 2)
        magnitude == 100 * DecimalValue(whole) + DecimalValue(frac2)
    IN  IF s # <<>> /\ s[1] = "-" THEN 0 - magnitude ELSE magnitude

(* The decimal digits of a natural number. *)
RECURSIVE Digits(_)
Digits(n) ==
    IF n < 10 THEN <<DigitChars[n + 1]>>
    ELSE Digits(n \div 10) \o <<DigitChars[(n % 10) + 1]>>

(* The text of the cell that holds a number: sign, whole part and the      *)
(* decimals that are not trailing zeros (200 -> "2", 1550 -> "15.5").      *)
formatted(amount) ==
    LET magnitude == IF amount < 0 THEN 0 - amount ELSE amount
        cents == magnitude % 100
        decimals == IF cents = 0 THEN <<>>
                    ELSE IF cents % 10 = 0 THEN <<".">> \o Digits(cents \div 10)
                    ELSE <<".", DigitChars[(cents \div 10) + 1], DigitChars[(cents % 10) + 1]>>
    IN  (IF amount < 0 THEN <<"-">> ELSE <<>>) \o Digits(magnitude \div 100) \o decimals


-----------------------------------------------------------------------------
(* Reply texts.  A text is a sequence of lines, a line a sequence of string *)
(* fragments; the numbers an f-string formats into it are kept in args.     *)

Text(lines) == [lines |-> lines, args |-> <<>>]

TextWith(lines, args) == [lines |-> lines, args |-> args]

Banner == <<"Welcome to the Expense Tracker Bot">>

main_menu(show_welcome) ==
    (IF show_welcome THEN <<Banner>> ELSE <<>>)
    \o << <<"Please choose an option:">>,
          <<"1. Add Expense">>,
          <<"2. View Today Total">>,
          <<"3. View This Week Total">>,
          <<"4. View All-Time Total">>,
          <<"5. Exit">> >>

categories ==
    (<<"1">> :> "Accommodation")
    @@ (<<"2">> :> "Meals & Catering")
    @@ (<<"3">> :> "Transport (Flights, Car Rental, Local Taxis)")
    @@ (<<"4">> :> "Venue Hire")
    @@ (<<"5">> :> "Vendor Payments")
    @@ (<<"6">> :> "Staff Hires (Temporary & Permanent)")
    @@ (<<"7">> :> "Security & Logistics")
    @@ (<<"8">> :> "Printing")
    @@ (<<"9">> :> "Other")

(* The keys of categories in the order of the dict literal. *)
CategoryKeys ==
    << <<"1">>, <<"2">>, <<"3">>, <<"4">>, <<"5">>, <<"6">>, <<"7">>, <<"8">>, <<"9">> >>

category_menu ==
    << <<"Choose category:">> >>
    \o [i \in DOMAIN CategoryKeys |->
            CategoryKeys[i] \o <<". ", categories[CategoryKeys[i]]>>]
    \o << <<"5. Exit">> >>

Goodbye == << <<"Thank you for using Expense Tracker. Goodbye!">> >>

NextActionMenu ==
    << <<"1. Add Another Expense">>,
       <<"2. View Today Total">>,
       <<"3. Main Menu">>,
       <<"5. Exit">> >>

AmountPrompt(label) ==
    << <<"Enter the amount spent on ", label, " (or type 'Exit' to cancel):">> >>

InvalidAmount == << <<"Invalid amount. Enter a number (or type 'Exit' to cancel):">> >>

NotesPrompt ==
    << <<"Enter a note or comment (or type '-' for none, 'Exit' to cancel):">> >>

Saved(category) ==
    << <<"Expense saved.">>,
       <<"You spent {amount} on ", category, ".">>,
       <<>>,
       <<"What would you like to do next:">> >>
    \o NextActionMenu

InvalidChoice ==
    << <<"Invalid choice. What would you like to do next?">> >> \o NextActionMenu

TodayTotal == << <<"Today's total spending: {total}">>, <<>> >> \o main_menu(FALSE)

WeekTotal == << <<"This week's total spending: {total}">>, <<>> >> \o main_menu(FALSE)

AllTimeTotal == << <<"All-time total spending: {total}">>, <<>> >> \o main_menu(FALSE)

(* What the framework answers when the handler raises (KeyError). *)
InternalServerError == << <<"Internal Server Error">> >>

-----------------------------------------------------------------------------
(* The ledger sheet *)

Header == <<"Timestamp", "Sender", "Category", "Amount", "Notes">>

(* The row save_expense builds: [timestamp, sender, category, amount, notes], *)
(* as the sheet holds it: the amount cell is the text of the number.          *)
Row(timestamp, sender, category, amount, notes) ==
    <<timestamp, sender, category, formatted(amount), notes>>

(* A variant of save_expense that sends the row twice. *)
save_expense_twice(sender, category, amount, notes) ==
    Append(Append(sheet, Row(now, sender, category, amount, notes)),
           Row(now, sender, category, amount, notes))

(* A variant of save_expense that leaves the notes column empty. *)
save_expense_without_notes(sender, category, amount, notes) ==
    Append(sheet, Row(now, sender, category, amount, <<>>))

(* A variant of save_expense that leaves the category column empty. *)
save_expense_unlabelled(sender, category, amount, notes) ==
    Append(sheet, Row(now, sender, "", amount, notes))

(* save_expense: the row sheet.append_row adds, stamped with the clock. *)
save_expense(sender, category, amount, notes) ==
    Append(sheet, Row(now, sender, category, amount, notes))

(* A variant of ElapsedDays that counts the midnights passed. *)
ElapsedDays_by_date(timestamp) ==
    (now \div TicksPerDay) - (timestamp \div TicksPerDay)

(* (now - row_time).days *)
ElapsedDays(timestamp) == (now - timestamp) \div TicksPerDay

NoWindow == -1

RECURSIVE SumRows(_, _, _)
SumRows(rows, sender, days) ==
    IF rows = <<>> THEN 0
    ELSE LET row == Head(rows)
             rest == SumRows(Tail(rows), sender, days)
         IN  IF row[2] # sender THEN rest
             ELSE IF days # NoWindow /\ ElapsedDays(row[1]) >= days THEN rest
             ELSE IF ParsesAsFloat(row[4]) THEN float(row[4]) + rest
             ELSE rest

(* A variant of calculate_total that sums the rows of every sender. *)
calculate_total_of_everyone(sender, days) ==
    SumRows(Tail(sheet), "A", days) + SumRows(Tail(sheet), "B", days)

(* calculate_total: the rows after the header, of this sender, in the window. *)
calculate_total(sender, days) == SumRows(Tail(sheet), sender, days)

-----------------------------------------------------------------------------
(* The webhook *)

ExitWords == { <<"5">>, <<"e", "x", "i", "t">> }

NoRequest == [From |-> "", Body |-> <<>>]

Init ==
    /\ user_state = EmptyDict
    /\ user_temp = EmptyDict
    /\ user_seen_welcome = {}
    /\ sheet = <<Header>>
    /\ now = 0
    /\ request = NoRequest
    /\ reply = Text(<<>>)
    /\ typed = [sender \in Senders |-> <<>>]
    /\ spent = [sender \in Senders |-> 0]
    /\ walked = [sender \in Senders |-> 0]
    /\ inflight = <<>>

(* The statements of a branch: the stores after it and the response. *)
Respond(state1, temp1, sheet1, response) ==
    /\ user_state' = state1
    /\ user_temp' = temp1
    /\ sheet' = sheet1
    /\ reply' = response

(* A variant of seen_welcome that does not record the sender. *)
seen_welcome_unrecorded(sender) == user_seen_welcome

(* Lines 116-119: the welcome set after the sender was seen. *)
seen_welcome(sender) == user_seen_welcome \cup {sender}

(* A variant of initialized in which a handler sees the state its sender   *)
(* had when the request arrived.                                           *)
initialized_on_arrival(sender) ==
    IF \E i \in DOMAIN inflight : inflight[i].From = sender
    THEN LET i == CHOOSE j \in DOMAIN inflight : inflight[j].From = sender
         IN  Put(user_state, sender, inflight[i].seen)
    ELSE IF sender \in DOMAIN user_state
    THEN user_state
    ELSE Put(user_state, sender, "MAIN_MENU")

(* Lines 122-123: the states with the sender's state initialized. *)
initialized(sender) ==
    IF sender \in DOMAIN user_state
    THEN user_state
    ELSE Put(user_state, sender, "MAIN_MENU")

(* A variant of is_exit that compares the text as typed. *)
is_exit_as_typed(message) == message \in ExitWords

(* Line 128: message.lower() in ["5", "exit"] *)
is_exit(message) == lower(message) \in ExitWords

(* A variant of notes_text that keeps the text as typed. *)
notes_text_as_typed(message) == message

(* Line 176: message if message != "-" else "" *)
notes_text(message) == IF message # <<"-">> THEN message ELSE <<>>

(* A variant of exit_handling that discards the draft of every sender. *)
exit_handling_dropping_every_draft(sender, states) ==
    Respond(Put(states, sender, "MAIN_MENU"), EmptyDict, sheet, Text(Goodbye))

(* A variant of exit_handling that also clears the sheet below the header. *)
exit_handling_clearing_sheet(sender, states) ==
    Respond(Put(states, sender, "MAIN_MENU"), Pop(user_temp, sender), <<Header>>,
            Text(Goodbye))

(* Lines 128-132: the exit shortcut, taken before the state is looked at. *)
exit_handling(sender, states) ==
    Respond(Put(states, sender, "MAIN_MENU"), Pop(user_temp, sender), sheet,
            Text(Goodbye))

(* A variant of main_menu_state that opens a draft when "1" is chosen. *)
main_menu_state_opening_draft(sender, message, states, show_welcome) ==
    IF message = <<"1">>
    THEN Respond(Put(states, sender, "AWAIT_CATEGORY"),
                 Put(user_temp, sender, EmptyDict), sheet, Text(category_menu))
    ELSE IF message = <<"2">>
    THEN Respond(states, user_temp, sheet,
                 TextWith(TodayTotal, <<calculate_total(sender, 1)>>))
    ELSE IF message = <<"3">>
    THEN Respond(states, user_temp, sheet,
                 TextWith(WeekTotal, <<calculate_total(sender, 7)>>))
    ELSE IF message = <<"4">>
    THEN Respond(states, user_temp, sheet,
                 TextWith(AllTimeTotal, <<calculate_total(sender, NoWindow)>>))
    ELSE Respond(states, user_temp, sheet, Text(main_menu(show_welcome)))

(* Lines 135-150. *)
main_menu_state(sender, message, states, show_welcome) ==
    IF message = <<"1">>
    THEN Respond(Put(states, sender, "AWAIT_CATEGORY"), user_temp, sheet,
                 Text(category_menu))
    ELSE IF message = <<"2">>
    THEN Respond(states, user_temp, sheet,
                 TextWith(TodayTotal, <<calculate_total(sender, 1)>>))
    ELSE IF message = <<"3">>
    THEN Respond(states, user_temp, sheet,
                 TextWith(WeekTotal, <<calculate_total(sender, 7)>>))
    ELSE IF message = <<"4">>
    THEN Respond(states, user_temp, sheet,
                 TextWith(AllTimeTotal, <<calculate_total(sender, NoWindow)>>))
    ELSE Respond(states, user_temp, sheet, Text(main_menu(show_welcome)))

category_selection(sender, message, states) ==
    IF message \notin DOMAIN categories
    THEN Respond(states, user_temp, sheet, Text(category_menu))
    ELSE Respond(Put(states, sender, "AWAIT_AMOUNT"),
                 Put(user_temp, sender, "category" :> categories[message]),
                 sheet, Text(AmountPrompt(categories[message])))

(* Lines 169-172: the amount parsed, stored in the sender's draft. *)
amount_stored(sender, message, states) ==
    IF sender \notin DOMAIN user_temp
    THEN Respond(states, user_temp, sheet, Text(InternalServerError))
    ELSE Respond(Put(states, sender, "AWAIT_NOTES"),
                 Put(user_temp, sender, Put(user_temp[sender], "amount", float(message))),
                 sheet, Text(NotesPrompt))

(* A variant of amount_entry that drops the draft when the amount is invalid. *)
amount_entry_dropping_draft(sender, message, states) ==
    IF ~ParsesAsFloat(message)
    THEN Respond(states, Pop(user_temp, sender), sheet, Text(InvalidAmount))
    ELSE amount_stored(sender, message, states)

amount_entry(sender, message, states) ==
    IF ~ParsesAsFloat(message)
    THEN Respond(states, user_temp, sheet, Text(InvalidAmount))
    ELSE amount_stored(sender, message, states)

notes_entry(sender, message, states) ==
    IF \/ sender \notin DOMAIN user_temp
       \/ {"category", "amount"} \ DOMAIN user_temp[sender] # {}
    THEN Respond(states, user_temp, sheet, Text(InternalServerError))
    ELSE LET notes == notes_text(message)
             category == user_temp[sender]["category"]
             amount == user_temp[sender]["amount"]
         IN  Respond(Put(states, sender, "NEXT_ACTION"), Pop(user_temp, sender),
                     save_expense(sender, category, amount, notes),
                     TextWith(Saved(category), <<amount>>))

(* A variant of next_action_menu in which "3" shows the main menu and      *)
(* leaves the sender in NEXT_ACTION.                                       *)
next_action_menu_staying(sender, message, states) ==
    IF message = <<"1">>
    THEN Respond(Put(states, sender, "AWAIT_CATEGORY"), user_temp, sheet,
                 Text(category_menu))
    ELSE IF message = <<"2">>
    THEN Respond(Put(states, sender, "MAIN_MENU"), user_temp, sheet,
                 TextWith(TodayTotal, <<calculate_total(sender, 1)>>))
    ELSE IF message = <<"3">>
    THEN Respond(states, user_temp, sheet, Text(main_menu(FALSE)))
    ELSE Respond(states, user_temp, sheet, Text(InvalidChoice))

(* Lines 195-217. *)
next_action_menu(sender, message, states) ==
    IF message = <<"1">>
    THEN Respond(Put(states, sender, "AWAIT_CATEGORY"), user_temp, sheet,
                 Text(category_menu))
    ELSE IF message = <<"2">>
    THEN Respond(Put(states, sender, "MAIN_MENU"), user_temp, sheet,
                 TextWith(TodayTotal, <<calculate_total(sender, 1)>>))
    ELSE IF message = <<"3">>
    THEN Respond(Put(states, sender, "MAIN_MENU"), user_temp, sheet,
                 Text(main_menu(FALSE)))
    ELSE IF lower(message) \in ExitWords
    THEN Respond(Put(states, sender, "MAIN_MENU"), user_temp, sheet, Text(Goodbye))
    ELSE Respond(states, user_temp, sheet, Text(InvalidChoice))

(* A variant of fallback that leaves the stored state as it is. *)
fallback_keeping_state(sender, states) ==
    Respond(states, user_temp, sheet, Text(main_menu(FALSE)))

(* Lines 220-223: the stored state is none of the five. *)
fallback(sender, states) ==
    Respond(Put(states, sender, "MAIN_MENU"), user_temp, sheet, Text(main_menu(FALSE)))

(* whatsapp_webhook: one inbound message, handled to its return.  The only *)
(* await of the handler is the read of the form, before it reads a store.  *)
whatsapp_webhook(sender, Body) ==
    LET message == strip(Body)
        show_welcome == sender \notin user_seen_welcome
        states == initialized(sender)
        state == states[sender]
    IN  /\ request' = [From |-> sender, Body |-> Body]
        /\ user_seen_welcome' = seen_welcome(sender)
        /\ now' = now
        /\ IF is_exit(message) THEN exit_handling(sender, states)
           ELSE CASE state = "MAIN_MENU" ->
                    main_menu_state(sender, message, states, show_welcome)
                [] state = "AWAIT_CATEGORY" -> category_selection(sender, message, states)
                [] state = "AWAIT_AMOUNT" -> amount_entry(sender, message, states)
                [] state = "AWAIT_NOTES" -> notes_entry(sender, message, states)
                [] state = "NEXT_ACTION" -> next_action_menu(sender, message, states)
                [] OTHER -> fallback(sender, states)

(* The ledger of the model holds at most MaxRows expense rows: a message   *)
(* that would append one more is not delivered.                            *)
WouldAppend(sender, Body) ==
    /\ sender \in DOMAIN user_state
    /\ user_state[sender] = "AWAIT_NOTES"
    /\ ~is_exit(strip(Body))

(* The observer's record after a message of the sender: the text that took *)
(* the sender from AWAIT_CATEGORY to AWAIT_AMOUNT, then the text that took  *)
(* it on to AWAIT_NOTES; emptied when the sender leaves that path.          *)
Observed(sender, message) ==
    LET before == IF sender \in DOMAIN user_state THEN user_state[sender] ELSE "MAIN_MENU"
        after == user_state'[sender]
    IN  IF before = "AWAIT_CATEGORY" /\ after = "AWAIT_AMOUNT" THEN <<message>>
        ELSE IF before = "AWAIT_AMOUNT" /\ after = "AWAIT_NOTES"
        THEN Append(typed[sender], message)
        ELSE IF before = after THEN typed[sender]
        ELSE <<>>

(* The observer's sum after a message of the sender: the amount text of    *)
(* the traversal is added when the message completes the traversal.        *)
Completed(sender) ==
    LET before == IF sender \in DOMAIN user_state THEN user_state[sender] ELSE "MAIN_MENU"
        after == user_state'[sender]
    IN  IF before = "AWAIT_NOTES" /\ after = "NEXT_ACTION" /\ Len(typed[sender]) = 2
        THEN spent[sender] + float(typed[sender][2])
        ELSE spent[sender]

(* The observer takes note of the message handled. *)
Observe(sender, message) ==
    /\ typed' = [typed EXCEPT ![sender] = Observed(sender, message)]
    /\ spent' = [spent EXCEPT ![sender] = Completed(sender)]

(* The message channel delivers one inbound message. *)
Deliver ==
    \E sender \in Senders, Body \in Bodies :
        /\ WouldAppend(sender, Body) => Len(sheet) - 1 < MaxRows
        /\ whatsapp_webhook(sender, Body)
        /\ Observe(sender, strip(Body))
        /\ UNCHANGED <<walked, inflight>>

(* Time passes between two messages. *)
Tick ==
    /\ now < MaxTime
    /\ now' = now + 1
    /\ UNCHANGED <<user_state, user_temp, user_seen_welcome, sheet, request, reply,
                   typed, spent, walked, inflight>>

Next == Deliver

(* Messages arriving within one tick of the clock. *)
Spec == Init /\ [][Next]_vars

(* Messages arriving as time passes. *)
SpecClock == Init /\ [][Next \/ Tick]_vars

-----------------------------------------------------------------------------
(* Requests in flight: the handler is a coroutine on one event loop.  It   *)
(* waits once, for the form (line 109), and then runs to its return.       *)

(* The texts typed while requests overlap. *)
AsyncBodies == { <<"1">>, <<"-">> }

(* A request arrives while no request of another sender waits: its        *)
(* handler starts and waits for the form.                                  *)
Accept ==
    \E sender \in Senders, Body \in AsyncBodies :
        /\ Len(inflight) < MaxInFlight
        /\ \A i \in DOMAIN inflight : inflight[i].From = sender
        /\ inflight' = Append(inflight,
                              [From |-> sender, Body |-> Body,
                               seen |-> IF sender \in DOMAIN user_state
                                        THEN user_state[sender] ELSE "MAIN_MENU"])
        /\ UNCHANGED <<user_state, user_temp, user_seen_welcome, sheet, now, request,
                       reply, typed, spent, walked>>

(* The sequence without its i-th element. *)
Without(seq, i) == SubSeq(seq, 1, i - 1) \o SubSeq(seq, i + 1, Len(seq))

(* The form of a waiting handler is read, in any order of arrival: the     *)
(* handler runs to its return before the event loop resumes another.       *)
Resume ==
    \E i \in DOMAIN inflight :
        /\ WouldAppend(inflight[i].From, inflight[i].Body) => Len(sheet) - 1 < MaxRows
        /\ whatsapp_webhook(inflight[i].From, inflight[i].Body)
        /\ Observe(inflight[i].From, strip(inflight[i].Body))
        /\ inflight' = Without(inflight, i)
        /\ walked' = walked

SpecAsync == Init /\ [][Accept \/ Resume]_vars

-----------------------------------------------------------------------------
(* The tally: expenses entered, abandoned and totalled *)

(* "1" starts an expense and is a key, an amount and a note; "4" asks for  *)
(* the all-time total and is a key, an amount and a note; " Exit "         *)
(* abandons.                                                               *)
TallyBodies == { <<"1">>, <<"4">>, <<" ", "E", "x", "i", "t", " ">> }

Tally ==
    \E sender \in Senders, Body \in TallyBodies :
        /\ WouldAppend(sender, Body) => Len(sheet) - 1 < MaxRows
        /\ whatsapp_webhook(sender, Body)
        /\ Observe(sender, strip(Body))
        /\ UNCHANGED <<walked, inflight>>

SpecTally == Init /\ [][Tally]_vars

-----------------------------------------------------------------------------
(* The walkthrough: senders never seen before who each type one expense    *)
(* and go back to the main menu, their messages interleaved, as time       *)
(* passes.                                                                 *)

Script ==
    << <<"1">>, <<"2">>, <<"1", "5", ".", "5", "0">>, <<"-">>, <<"3">> >>

(* A sender types the next message of the walkthrough. *)
Walk ==
    \E sender \in Senders :
        /\ walked[sender] < Len(Script)
        /\ whatsapp_webhook(sender, Script[walked[sender] + 1])
        /\ Observe(sender, strip(Script[walked[sender] + 1]))
        /\ walked' = [walked EXCEPT ![sender] = walked[sender] + 1]
        /\ inflight' = inflight

SpecWalk == Init /\ [][Walk \/ Tick]_vars

-----------------------------------------------------------------------------
(* calculate_total over the ledgers it may find *)

(* The amount cells of a ledger row: a number and a text float() rejects. *)
AmountCells == { <<"2", ".", "5">>, <<"N", "/", "A">> }

(* The clock when the totals are asked for: a week after the oldest row. *)
ReportTime == 7 * TicksPerDay

(* The age of a row in ticks: a tick short of a day, a day, a tick short of *)
(* a week, a week.                                                          *)
RowAges == { TicksPerDay - 1, TicksPerDay, 7 * TicksPerDay - 1, 7 * TicksPerDay }

LedgerRows ==
    { <<ReportTime - age, phone, "Fuel", amount, <<>> >> :
          age \in RowAges, phone \in Senders, amount \in AmountCells }

Ledgers == UNION { [1..n -> LedgerRows] : n \in 0..MaxLedger }

InitTotals ==
    /\ user_state = EmptyDict
    /\ user_temp = EmptyDict
    /\ user_seen_welcome = {}
    /\ sheet \in { <<Header>> \o rows : rows \in Ledgers }
    /\ now = ReportTime
    /\ request = NoRequest
    /\ reply = Text(<<>>)
    /\ typed = [sender \in Senders |-> <<>>]
    /\ spent = [sender \in Senders |-> 0]
    /\ walked = [sender \in Senders |-> 0]
    /\ inflight = <<>>

(* The main menu choices that report a total. *)
TotalBodies == { <<"2">>, <<"3">>, <<"4">> }

(* A sender asks for a total. *)
Report ==
    \E sender \in Senders, Body \in TotalBodies :
        /\ whatsapp_webhook(sender, Body)
        /\ Observe(sender, strip(Body))
        /\ UNCHANGED <<walked, inflight>>

SpecTotals == InitTotals /\ [][Report]_vars

-----------------------------------------------------------------------------
(* The two menus, over the ledgers a sender may find there *)

(* The texts typed at a menu: its choices, and texts that are none. *)
MenuBodies ==
    { <<"1">>, <<"2">>, <<"3">>, <<"4">>, <<"-">>, <<"E", "X", "I", "T">> }

(* The ledgers of at most MaxRows rows. *)
MenuLedgers == UNION { [1..n -> LedgerRows] : n \in 0..MaxRows }

(* Every sender is new, at the main menu, or at the next-action menu after *)
(* an expense of the sender's was saved; no draft is open.                 *)
InitMenus ==
    /\ \E seen \in SUBSET Senders :
           /\ user_state \in [seen -> {"MAIN_MENU", "NEXT_ACTION"}]
           /\ user_seen_welcome = seen
    /\ user_temp = EmptyDict
    /\ sheet \in { <<Header>> \o rows : rows \in MenuLedgers }
    /\ \A sender \in DOMAIN user_state :
           user_state[sender] = "NEXT_ACTION" =>
               \E i \in 2..Len(sheet) : sheet[i][2] = sender
    /\ now = ReportTime
    /\ request = NoRequest
    /\ reply = Text(<<>>)
    /\ typed = [sender \in Senders |-> <<>>]
    /\ spent = [sender \in Senders |-> 0]
    /\ walked = [sender \in Senders |-> 0]
    /\ inflight = <<>>

(* A sender at a menu types. *)
Choose ==
    \E sender \in Senders, Body \in MenuBodies :
        /\ sender \in DOMAIN user_state =>
               user_state[sender] \in {"MAIN_MENU", "NEXT_ACTION"}
        /\ whatsapp_webhook(sender, Body)
        /\ Observe(sender, strip(Body))
        /\ UNCHANGED <<walked, inflight>>

SpecMenus == InitMenus /\ [][Choose]_vars

-----------------------------------------------------------------------------
(* The webhook over a store that holds a state it never writes *)

(* The five states the handler writes. *)
States == {"MAIN_MENU", "AWAIT_CATEGORY", "AWAIT_AMOUNT", "AWAIT_NOTES", "NEXT_ACTION"}

(* What the store may hold for a sender: a state, or a value that is none. *)
StoredStates == States \cup {"ARCHIVED"}

(* The drafts the store may hold beside it: none, or a full one. *)
StoredDrafts ==
    { d \in [Senders -> {"none", "full"}] : TRUE }

FullDraft == [category |-> "Fuel", amount |-> 250]

InitStored ==
    /\ user_state \in [Senders -> StoredStates]
    /\ \E d \in StoredDrafts :
           user_temp = [sender \in {x \in Senders : d[x] = "full"} |-> FullDraft]
    /\ user_seen_welcome = Senders
    /\ sheet = <<Header>>
    /\ now = 0
    /\ request = NoRequest
    /\ reply = Text(<<>>)
    /\ typed = [sender \in Senders |-> <<>>]
    /\ spent = [sender \in Senders |-> 0]
    /\ walked = [sender \in Senders |-> 0]
    /\ inflight = <<>>

(* A message of a sender whose stored state is none of the five. *)
Recover ==
    \E sender \in Senders, Body \in Bodies :
        /\ user_state[sender] \notin States
        /\ whatsapp_webhook(sender, Body)
        /\ Observe(sender, strip(Body))
        /\ UNCHANGED <<walked, inflight>>

SpecStored == InitStored /\ [][Recover]_vars

-----------------------------------------------------------------------------
(* Vocabulary of the properties *)

(* The sender's conversation state; MAIN_MENU before first contact. *)
StateOf(sender) ==
    IF sender \in DOMAIN user_state THEN user_state[sender] ELSE "MAIN_MENU"

(* The step handles a message of the sender (request' is that message). *)
Handles(sender) == now' = now /\ request'.From = sender

(* The handled message, trimmed. *)
Message == strip(request'.Body)

(* An exit input: the trimmed, lower-cased text is "5" or "exit". *)
ExitInput(text) == lower(text) \in { <<"5">>, <<"e", "x", "i", "t">> }

HasBanner(response) == \E i \in DOMAIN response.lines : response.lines[i] = Banner

ExpenseRows == Tail(sheet)

(* The number an amount cell reads as. *)
AmountOf(row) == float(row[4])

(* The step appends one row to the ledger: stamped with the clock, with    *)
(* this sender, category and notes, and an amount cell that reads as this  *)
(* amount.                                                                 *)
Appended(sender, category, amount, notes) ==
    /\ Len(sheet') = Len(sheet) + 1
    /\ SubSeq(sheet', 1, Len(sheet)) = sheet
    /\ LET row == sheet'[Len(sheet')]
       IN  /\ Len(row) = 5
           /\ row[1] = now
           /\ row[2] = sender
           /\ row[3] = category
           /\ ParsesAsFloat(row[4]) /\ AmountOf(row) = amount
           /\ row[5] = notes

-----------------------------------------------------------------------------
(* C1: for every sender and every conversation state, handling a message   *)
(* whose trimmed, lower-cased text is "5" or "exit" leaves the sender in   *)
(* MAIN_MENU with no draft, replies with the goodbye message and appends   *)
(* nothing to the ledger.                                                  *)
C1_ExitResets ==
    [][\A sender \in Senders :
          (Handles(sender) /\ ExitInput(Message)) =>
              /\ sender \in DOMAIN user_state'
              /\ user_state'[sender] = "MAIN_MENU"
              /\ sender \notin DOMAIN user_temp'
              /\ reply' = Text(Goodbye)
              /\ sheet' = sheet]_vars

(* A sender who had completed an expense typed " Exit " and is back in     *)
(* MAIN_MENU, while the other sender's draft is in progress.               *)
C1_Witness ==
    \E sender \in Senders :
        /\ request = [From |-> sender, Body |-> <<" ", "E", "x", "i", "t", " ">>]
        /\ reply = Text(Goodbye)
        /\ user_state[sender] = "MAIN_MENU"
        /\ \E i \in DOMAIN ExpenseRows : ExpenseRows[i][2] = sender
        /\ DOMAIN user_temp # {}

(* C2: when a sender completes a traversal (key k accepted in              *)
(* AWAIT_CATEGORY, amount text a in AWAIT_AMOUNT, notes text n in          *)
(* AWAIT_NOTES), the two first steps append nothing and the last appends   *)
(* exactly one row: this sender, the catalog label of k, the number a, and *)
(* notes n, or the empty text when n is "-".                               *)
C2_TraversalAppendsWhatWasTyped ==
    [][\A sender \in Senders :
          Handles(sender) =>
              /\ (StateOf(sender) = "AWAIT_NOTES" /\ user_state'[sender] = "NEXT_ACTION") =>
                    /\ Len(typed[sender]) = 2
                    /\ Appended(sender, categories[typed[sender][1]],
                                float(typed[sender][2]),
                                IF Message = <<"-">> THEN <<>> ELSE Message)
              /\ StateOf(sender) \in {"AWAIT_CATEGORY", "AWAIT_AMOUNT"} => sheet' = sheet]_vars

(* A sender completed a traversal with "-" for the notes while the other   *)
(* sender's traversal, with another category and amount, is under way.     *)
C2_Witness ==
    \E sender \in Senders, other \in Senders :
        /\ other # sender
        /\ ExpenseRows = << <<now, sender, "Accommodation", <<"2">>, <<>> >> >>
        /\ request = [From |-> sender, Body |-> <<"-">>]
        /\ reply.lines = Saved("Accommodation")
        /\ StateOf(other) = "AWAIT_NOTES"
        /\ user_temp[other] = [category |-> "Meals & Catering", amount |-> 100]

(* C3: the ledger changes only in a step that handles a non-exit message   *)
(* of a sender in AWAIT_NOTES, and that step appends exactly one row.      *)
C3_OneAppendAtNotes ==
    [][sheet' # sheet =>
          /\ now' = now
          /\ StateOf(request'.From) = "AWAIT_NOTES"
          /\ ~ExitInput(Message)
          /\ Len(sheet') = Len(sheet) + 1
          /\ SubSeq(sheet', 1, Len(sheet)) = sheet]_vars

(* The ledger got its row in a step of a sender who was in AWAIT_NOTES and *)
(* is now in NEXT_ACTION; the other sender is still choosing a category.   *)
C3_Witness ==
    \E sender \in Senders, other \in Senders :
        /\ Len(ExpenseRows) = 1
        /\ ExpenseRows[1][2] = sender
        /\ ExpenseRows[1][5] = <<"2">>
        /\ request = [From |-> sender, Body |-> <<"2">>]
        /\ user_state[sender] = "NEXT_ACTION"
        /\ StateOf(other) = "AWAIT_CATEGORY"

(* C4: the reply to a sender's first inbound message contains the welcome   *)
(* banner, whatever the text of that message.                              *)
C4_FirstReplyHasBanner ==
    [][\A sender \in Senders :
          (Handles(sender) /\ sender \notin DOMAIN user_state) => HasBanner(reply')]_vars

(* C5: the Welcome-Shown Set only grows, and no reply to a message after a *)
(* sender's first contains the welcome banner.                             *)
C5_WelcomeNeverAgain ==
    [][/\ user_seen_welcome \subseteq user_seen_welcome'
       /\ \A sender \in Senders :
             (Handles(sender) /\ sender \in DOMAIN user_state) => ~HasBanner(reply')]_vars

(* A sender who completed an expense and went back to MAIN_MENU gets the   *)
(* main menu without the banner.                                           *)
C5_Witness ==
    \E sender \in Senders :
        /\ request.From = sender
        /\ reply = Text(main_menu(FALSE))
        /\ user_state[sender] = "MAIN_MENU"
        /\ sender \in user_seen_welcome
        /\ \E i \in DOMAIN ExpenseRows : ExpenseRows[i][2] = sender

(* C6: for a sender in AWAIT_AMOUNT a non-exit message that does not parse *)
(* as a number, and for a sender in AWAIT_CATEGORY a non-exit message that *)
(* is no catalog key, leaves the sender's state, every draft and the       *)
(* ledger unchanged and is answered by the re-prompt.                      *)
C6_InvalidInputChangesNothing ==
    [][\A sender \in Senders :
          (Handles(sender) /\ ~ExitInput(Message)) =>
              /\ (StateOf(sender) = "AWAIT_AMOUNT" /\ ~ParsesAsFloat(Message)) =>
                    /\ user_state' = user_state
                    /\ user_temp' = user_temp
                    /\ sheet' = sheet
                    /\ reply' = Text(InvalidAmount)
              /\ (StateOf(sender) = "AWAIT_CATEGORY" /\ Message \notin DOMAIN categories) =>
                    /\ user_state' = user_state
                    /\ user_temp' = user_temp
                    /\ sheet' = sheet
                    /\ reply' = Text(category_menu)]_vars

(* A sender with a category chosen typed "-" for the amount and is asked   *)
(* again, the draft as it was.                                             *)
C6_Witness ==
    \E sender \in Senders :
        /\ request = [From |-> sender, Body |-> <<"-">>]
        /\ reply = Text(InvalidAmount)
        /\ user_state[sender] = "AWAIT_AMOUNT"
        /\ sender \in DOMAIN user_temp
        /\ DOMAIN user_temp[sender] = {"category"}

(* C7: a sender has a draft exactly when its state is AWAIT_AMOUNT or      *)
(* AWAIT_NOTES; the draft then has a category, and in AWAIT_NOTES an       *)
(* amount; no handler fails on a missing one.                              *)
C7_DraftIffAwaiting ==
    /\ \A sender \in Senders :
          /\ sender \in DOMAIN user_temp <=> StateOf(sender) \in {"AWAIT_AMOUNT", "AWAIT_NOTES"}
          /\ sender \in DOMAIN user_temp => "category" \in DOMAIN user_temp[sender]
          /\ StateOf(sender) = "AWAIT_NOTES" => "amount" \in DOMAIN user_temp[sender]
    /\ reply # Text(InternalServerError)

(* One sender awaits the notes with a full draft, the other the amount     *)
(* with a category only, after an expense was saved.                       *)
C7_Witness ==
    \E a \in Senders, b \in Senders :
        /\ a # b
        /\ StateOf(a) = "AWAIT_NOTES"
        /\ DOMAIN user_temp[a] = {"category", "amount"}
        /\ StateOf(b) = "AWAIT_AMOUNT"
        /\ DOMAIN user_temp[b] = {"category"}
        /\ Len(ExpenseRows) = 1

(* C8: for a sender in AWAIT_CATEGORY, every key of the catalog starts a   *)
(* draft with the label of that key and moves the sender to AWAIT_AMOUNT.  *)
C8_EveryKeySelects ==
    [][\A sender \in Senders :
          (/\ Handles(sender)
           /\ StateOf(sender) = "AWAIT_CATEGORY"
           /\ Message \in DOMAIN categories) =>
              /\ user_state'[sender] = "AWAIT_AMOUNT"
              /\ sender \in DOMAIN user_temp'
              /\ user_temp'[sender]["category"] = categories[Message]]_vars

(* C9: for a sender in AWAIT_AMOUNT, every text that parses as a number is *)
(* stored as the draft's amount, beside the category, and moves the sender *)
(* to AWAIT_NOTES; nothing is appended.                                    *)
C9_EveryNumberIsStored ==
    [][\A sender \in Senders :
          (/\ Handles(sender)
           /\ StateOf(sender) = "AWAIT_AMOUNT"
           /\ ParsesAsFloat(Message)) =>
              /\ user_state'[sender] = "AWAIT_NOTES"
              /\ sender \in DOMAIN user_temp'
              /\ user_temp'[sender] =
                     Put(user_temp[sender], "amount", float(Message))
              /\ sheet' = sheet]_vars

(* The notes step appends the sender's completed draft. *)
CompletedRow(sender) ==
    Appended(sender, user_temp[sender]["category"], user_temp[sender]["amount"],
             IF Message = <<"-">> THEN <<>> ELSE Message)

(* C10 as stated: for a sender in AWAIT_NOTES every text, the exit inputs  *)
(* included, is taken as the notes.                                        *)
C10_AnyTextIsNotes ==
    [][\A sender \in Senders :
          (Handles(sender) /\ StateOf(sender) = "AWAIT_NOTES") =>
              /\ user_state'[sender] = "NEXT_ACTION"
              /\ sender \notin DOMAIN user_temp'
              /\ CompletedRow(sender)]_vars

(* C10, amended: for a sender in AWAIT_NOTES every text that is no exit    *)
(* input is taken as the notes: the completed draft is appended with notes *)
(* equal to the text (empty when the text is "-"), the draft is cleared    *)
(* and the sender moves to NEXT_ACTION.                                    *)
C10_NonExitTextIsNotes ==
    [][\A sender \in Senders :
          (Handles(sender) /\ StateOf(sender) = "AWAIT_NOTES" /\ ~ExitInput(Message)) =>
              /\ user_state'[sender] = "NEXT_ACTION"
              /\ sender \notin DOMAIN user_temp'
              /\ CompletedRow(sender)]_vars

(* A menu choice typed as the notes was saved as the notes. *)
C10_Witness ==
    \E sender \in Senders :
        /\ request = [From |-> sender, Body |-> <<"1">>]
        /\ user_state[sender] = "NEXT_ACTION"
        /\ sender \notin DOMAIN user_temp
        /\ Len(ExpenseRows) >= 1
        /\ ExpenseRows[Len(ExpenseRows)][2] = sender
        /\ ExpenseRows[Len(ExpenseRows)][5] = <<"1">>
        /\ reply.lines = Saved(ExpenseRows[Len(ExpenseRows)][3])

(* The full days elapsed since the row was stamped. *)
FullDays(row) ==
    CHOOSE d \in 0..now : /\ d * TicksPerDay <= now - row[1]
                          /\ now - row[1] < (d + 1) * TicksPerDay

(* The rows of the ledger that count for the sender's total: of this       *)
(* sender, with an amount that reads as a number, in the window asked for. *)
Qualifying(sender, choice) ==
    { i \in DOMAIN ExpenseRows :
          /\ ExpenseRows[i][2] = sender
          /\ ParsesAsFloat(ExpenseRows[i][4])
          /\ \/ choice = <<"4">>
             \/ choice = <<"2">> /\ FullDays(ExpenseRows[i]) = 0
             \/ choice = <<"3">> /\ FullDays(ExpenseRows[i]) < 7 }

RECURSIVE SumOfAmounts(_)
SumOfAmounts(indices) ==
    IF indices = {} THEN 0
    ELSE LET i == CHOOSE j \in indices : TRUE
         IN  AmountOf(ExpenseRows[i]) + SumOfAmounts(indices \ {i})

(* C11: over every ledger, the total reported to a sender for today, this  *)
(* week or all time is the sum of the amounts of exactly the rows of that  *)
(* sender whose amount reads as a number and whose full days elapsed are 0 *)
(* (today), below 7 (this week) or any (all time); a row with another      *)
(* sender or a non-numeric amount adds nothing and does not stop the scan, *)
(* and the total is 0 when no row qualifies.                               *)
C11_TotalIsSumOfQualifying ==
    [][\A sender \in Senders :
          (/\ Handles(sender)
           /\ StateOf(sender) = "MAIN_MENU"
           /\ Message \in { <<"2">>, <<"3">>, <<"4">> }) =>
              /\ reply'.args = <<SumOfAmounts(Qualifying(sender, Message))>>
              /\ reply'.lines = (IF Message = <<"2">> THEN TodayTotal
                                 ELSE IF Message = <<"3">> THEN WeekTotal
                                 ELSE AllTimeTotal)
              /\ (Qualifying(sender, Message) = {} => reply'.args = <<0>>)]_vars

(* A sender asked for today's total over a ledger whose first row is the   *)
(* sender's with a non-numeric amount and whose second row is the sender's *)
(* 2.5 of less than a day ago: the total is 2.5.                           *)
C11_Witness ==
    \E sender \in Senders :
        /\ request = [From |-> sender, Body |-> <<"2">>]
        /\ Len(ExpenseRows) = 2
        /\ ExpenseRows[1] = <<now - (TicksPerDay - 1), sender, "Fuel", <<"N", "/", "A">>, <<>> >>
        /\ ExpenseRows[2] = <<now - (TicksPerDay - 1), sender, "Fuel", <<"2", ".", "5">>, <<>> >>
        /\ reply = TextWith(TodayTotal, <<250>>)

(* C12 as stated: for a sender whose stored state is none of the five,     *)
(* every message sets the state to MAIN_MENU and is answered by the main   *)
(* menu; no draft is created and nothing is appended.                      *)
C12_AnyMessageGetsMainMenu ==
    [][\A sender \in Senders :
          (Handles(sender) /\ StateOf(sender) \notin States) =>
              /\ user_state'[sender] = "MAIN_MENU"
              /\ reply' = Text(main_menu(FALSE))
              /\ DOMAIN user_temp' \subseteq DOMAIN user_temp
              /\ sheet' = sheet]_vars

(* C12, amended: for a sender whose stored state is none of the five,      *)
(* every message sets the state to MAIN_MENU and appends nothing; a        *)
(* message that is no exit input is answered by the main menu without the  *)
(* banner and leaves every draft as it was, an exit input is answered by   *)
(* the goodbye message and discards the sender's draft.                    *)
C12_UnknownStateResets ==
    [][\A sender \in Senders :
          (Handles(sender) /\ StateOf(sender) \notin States) =>
              /\ user_state'[sender] = "MAIN_MENU"
              /\ \A other \in Senders \ {sender} : user_state'[other] = user_state[other]
              /\ sheet' = sheet
              /\ IF ExitInput(Message)
                 THEN /\ reply' = Text(Goodbye)
                      /\ sender \notin DOMAIN user_temp'
                 ELSE /\ reply' = Text(main_menu(FALSE))
                      /\ user_temp' = user_temp]_vars

(* A sender whose stored state was none of the five typed "2" and is in    *)
(* MAIN_MENU with the main menu as the reply, the stored draft still       *)
(* there; the other sender's stored state is still none of the five.       *)
C12_Witness ==
    \E sender \in Senders, other \in Senders :
        /\ other # sender
        /\ request = [From |-> sender, Body |-> <<"2">>]
        /\ reply = Text(main_menu(FALSE))
        /\ user_state[sender] = "MAIN_MENU"
        /\ user_state[other] \notin States
        /\ sender \in DOMAIN user_temp
        /\ sheet = <<Header>>

(* The labels of the Category Catalog. *)
CatalogLabels == { categories[k] : k \in DOMAIN categories }

(* C13: every row of the ledger has a category that is not empty and is a  *)
(* label of the catalog, and an amount that reads as a number; and a row   *)
(* a step appends carries the sender of the message handled in that step.  *)
C13_RowsAreWellFormed ==
    [][\A i \in 2..Len(sheet') :
          /\ sheet'[i][3] # ""
          /\ sheet'[i][3] \in CatalogLabels
          /\ ParsesAsFloat(sheet'[i][4])
          /\ i > Len(sheet) => sheet'[i][2] = request'.From]_vars

(* The ledger holds a row of Meals & Catering, amount 2, that the sender   *)
(* of the last message completed with the notes "1".                       *)
C13_Witness ==
    /\ Len(ExpenseRows) = 1
    /\ ExpenseRows[1][2] = request.From
    /\ ExpenseRows[1][3] = "Meals & Catering"
    /\ ExpenseRows[1][4] = <<"2">>
    /\ ExpenseRows[1][5] = <<"1">>
    /\ request.Body = <<"1">>
    /\ reply.lines = Saved("Meals & Catering")

(* C14: the ledger is append-only: in every step the ledger after the step *)
(* is at least as long as the ledger before it and has it as a prefix.     *)
C14_AppendOnly ==
    [][/\ Len(sheet') >= Len(sheet)
       /\ \A i \in DOMAIN sheet : sheet'[i] = sheet[i]]_vars

(* A row was saved and its sender has typed " Exit " since: the row is     *)
(* still there.                                                            *)
C14_Witness ==
    \E sender \in Senders :
        /\ Len(ExpenseRows) = 1
        /\ ExpenseRows[1][2] = sender
        /\ spent[sender] > 0
        /\ request = [From |-> sender, Body |-> <<" ", "E", "x", "i", "t", " ">>]
        /\ user_state[sender] = "MAIN_MENU"
        /\ typed[sender] = <<>>
        /\ reply = Text(Goodbye)

(* The step runs the handler of a waiting request of the sender. *)
Resumes(sender) == Len(inflight') < Len(inflight) /\ request'.From = sender

(* The request handled in the step arrived when its sender had this state. *)
ArrivedIn(sender, state) ==
    \E i \in DOMAIN inflight :
        /\ inflight' = Without(inflight, i)
        /\ inflight[i] = [From |-> sender, Body |-> request'.Body, seen |-> state]

(* C15: requests of one sender that overlap are handled one after the      *)
(* other: each handler acts on the state the handler before it left, not   *)
(* on the state at arrival.  A handler that finds AWAIT_NOTES appends one  *)
(* row and leaves NEXT_ACTION; a handler that finds another state appends  *)
(* nothing, so a second message that arrived in AWAIT_NOTES is handled in  *)
(* NEXT_ACTION as a menu choice; no handler fails on a draft another one   *)
(* has consumed.                                                           *)
C15_OneAfterTheOther ==
    [][\A sender \in Senders :
          Resumes(sender) =>
              /\ reply' # Text(InternalServerError)
              /\ (StateOf(sender) = "AWAIT_NOTES" /\ ~ExitInput(Message)) =>
                    /\ Len(sheet') = Len(sheet) + 1
                    /\ user_state'[sender] = "NEXT_ACTION"
              /\ StateOf(sender) # "AWAIT_NOTES" => sheet' = sheet
              /\ (ArrivedIn(sender, "AWAIT_NOTES") /\ StateOf(sender) = "NEXT_ACTION") =>
                    /\ sheet' = sheet
                    /\ user_temp' = user_temp
                    /\ user_state'[sender] =
                           (IF Message = <<"1">> THEN "AWAIT_CATEGORY" ELSE "NEXT_ACTION")
                    /\ reply' = (IF Message = <<"1">> THEN Text(category_menu)
                                 ELSE Text(InvalidChoice))]_vars

(* Two messages "-" of a sender arrived while the sender was in            *)
(* AWAIT_NOTES; the handler of one has run: one row, NEXT_ACTION, and the  *)
(* other still waits.                                                      *)
C15_Witness ==
    \E sender \in Senders :
        /\ inflight = << [From |-> sender, Body |-> <<"-">>, seen |-> "AWAIT_NOTES"] >>
        /\ request = [From |-> sender, Body |-> <<"-">>]
        /\ reply.lines = Saved("Accommodation")
        /\ user_state[sender] = "NEXT_ACTION"
        /\ sender \notin DOMAIN user_temp
        /\ Len(ExpenseRows) = 1
        /\ ExpenseRows[1][2] = sender

(* The state a sender who is alone in the conversation has after a         *)
(* message: a function of the sender's own state and of the message.       *)
StateAlone(state, message) ==
    IF ExitInput(message) THEN "MAIN_MENU"
    ELSE IF state = "MAIN_MENU"
    THEN (IF message = <<"1">> THEN "AWAIT_CATEGORY" ELSE "MAIN_MENU")
    ELSE IF state = "AWAIT_CATEGORY"
    THEN (IF message \in DOMAIN categories THEN "AWAIT_AMOUNT" ELSE "AWAIT_CATEGORY")
    ELSE IF state = "AWAIT_AMOUNT"
    THEN (IF ParsesAsFloat(message) THEN "AWAIT_NOTES" ELSE "AWAIT_AMOUNT")
    ELSE IF state = "AWAIT_NOTES" THEN "NEXT_ACTION"
    ELSE IF message = <<"1">> THEN "AWAIT_CATEGORY"
    ELSE IF message \in { <<"2">>, <<"3">> } THEN "MAIN_MENU"
    ELSE "NEXT_ACTION"

(* C16: a step that handles a message of one sender leaves the stored      *)
(* state, the draft and the welcome membership of every other sender as    *)
(* they were; and the state it leaves its own sender in is the state that  *)
(* sender would have alone, whatever the other senders did in between.     *)
C16_SendersDoNotInterfere ==
    [][\A sender \in Senders :
          Handles(sender) =>
              /\ user_state'[sender] = StateAlone(StateOf(sender), Message)
              /\ \A other \in Senders \ {sender} :
                    /\ other \in DOMAIN user_state' <=> other \in DOMAIN user_state
                    /\ other \in DOMAIN user_state => user_state'[other] = user_state[other]
                    /\ other \in DOMAIN user_temp' <=> other \in DOMAIN user_temp
                    /\ other \in DOMAIN user_temp => user_temp'[other] = user_temp[other]
                    /\ other \in user_seen_welcome' <=> other \in user_seen_welcome]_vars

(* One sender typed " Exit " while the other awaits the notes with a full  *)
(* draft: the draft and the state of the other are as they were.           *)
C16_Witness ==
    \E sender \in Senders, other \in Senders :
        /\ other # sender
        /\ request = [From |-> sender, Body |-> <<" ", "E", "x", "i", "t", " ">>]
        /\ user_state[sender] = "MAIN_MENU"
        /\ StateOf(other) = "AWAIT_NOTES"
        /\ other \in DOMAIN user_temp
        /\ user_temp[other] = [category |-> "Accommodation", amount |-> 200]
        /\ other \in user_seen_welcome

(* The states of the walkthrough, after each of its messages. *)
WalkStates ==
    <<"AWAIT_CATEGORY", "AWAIT_AMOUNT", "AWAIT_NOTES", "NEXT_ACTION", "MAIN_MENU">>

(* C17: a sender never seen before who types "1", "2", "15.50", "-", "3"   *)
(* is after these messages in AWAIT_CATEGORY, AWAIT_AMOUNT, AWAIT_NOTES,   *)
(* NEXT_ACTION and MAIN_MENU; the fourth message appends one row (this     *)
(* sender, "Meals & Catering", 15.5, empty notes), the others append       *)
(* nothing; the reply to the fifth is the main menu without the banner.    *)
C17_Walkthrough ==
    [][\A sender \in Senders :
          (Handles(sender) /\ walked'[sender] = walked[sender] + 1) =>
              LET k == walked'[sender]
              IN  /\ request'.Body = Script[k]
                  /\ user_state'[sender] = WalkStates[k]
                  /\ IF k = 4
                     THEN Appended(sender, "Meals & Catering", 1550, <<>>)
                     ELSE sheet' = sheet
                  /\ k = 5 => /\ reply' = Text(main_menu(FALSE))
                              /\ ~HasBanner(reply')]_vars

(* A sender has typed the five messages: MAIN_MENU, the main menu as the   *)
(* reply, and one row of the sender in the ledger, beside the row of the   *)
(* other sender, who is in NEXT_ACTION.                                    *)
C17_Witness ==
    \E sender \in Senders, other \in Senders :
        /\ other # sender
        /\ walked[sender] = 5
        /\ walked[other] = 4
        /\ request = [From |-> sender, Body |-> <<"3">>]
        /\ reply = Text(main_menu(FALSE))
        /\ user_state[sender] = "MAIN_MENU"
        /\ user_state[other] = "NEXT_ACTION"
        /\ Len(ExpenseRows) = 2
        /\ \E i \in DOMAIN ExpenseRows :
               /\ ExpenseRows[i][2] = sender
               /\ ExpenseRows[i][3] = "Meals & Catering"
               /\ ExpenseRows[i][4] = <<"1", "5", ".", "5">>
               /\ ExpenseRows[i][5] = <<>>
               /\ \A j \in DOMAIN ExpenseRows : j # i => ExpenseRows[j][2] = other

(* C18: for a sender in NEXT_ACTION, "1" leads to AWAIT_CATEGORY, "2" and  *)
(* "3" lead to MAIN_MENU, and every other text that is no exit input is    *)
(* answered by the invalid-choice reply and leaves the sender in           *)
(* NEXT_ACTION; none of these steps opens a draft or appends a row.        *)
C18_NextActionChoices ==
    [][\A sender \in Senders :
          (Handles(sender) /\ StateOf(sender) = "NEXT_ACTION" /\ ~ExitInput(Message)) =>
              /\ Message = <<"1">> => user_state'[sender] = "AWAIT_CATEGORY"
              /\ Message \in { <<"2">>, <<"3">> } => user_state'[sender] = "MAIN_MENU"
              /\ Message \notin { <<"1">>, <<"2">>, <<"3">> } =>
                    /\ user_state'[sender] = "NEXT_ACTION"
                    /\ reply' = Text(InvalidChoice)
              /\ user_temp' = user_temp
              /\ sheet' = sheet]_vars

(* A sender at the next-action menu typed "3" and is at the main menu, the *)
(* ledger and the draft store as they were.                                *)
C18_Witness ==
    \E sender \in Senders :
        /\ request = [From |-> sender, Body |-> <<"3">>]
        /\ reply = Text(main_menu(FALSE))
        /\ user_state[sender] = "MAIN_MENU"
        /\ user_temp = EmptyDict
        /\ Len(ExpenseRows) = 1
        /\ ExpenseRows[1][2] = sender

(* C19: for a sender in MAIN_MENU, "1" leads to AWAIT_CATEGORY and every   *)
(* other text ("2", "3", "4" and the unmatched ones) leaves the sender in  *)
(* MAIN_MENU; no text opens a draft, changes a draft or appends a row.     *)
C19_MainMenuChoices ==
    [][\A sender \in Senders :
          (Handles(sender) /\ StateOf(sender) = "MAIN_MENU") =>
              /\ user_state'[sender] =
                     (IF Message = <<"1">> THEN "AWAIT_CATEGORY" ELSE "MAIN_MENU")
              /\ user_temp' = user_temp
              /\ sheet' = sheet]_vars

(* A sender at the main menu asked for the week's total over a ledger that *)
(* holds a row of the sender: still at the main menu, the row untouched.   *)
C19_Witness ==
    \E sender \in Senders :
        /\ request = [From |-> sender, Body |-> <<"3">>]
        /\ reply = TextWith(WeekTotal, <<250>>)
        /\ user_state[sender] = "MAIN_MENU"
        /\ user_temp = EmptyDict
        /\ Len(ExpenseRows) = 1
        /\ ExpenseRows[1][2] = sender

=============================================================================
